---------------------------- MODULE Spec2Model ----------------------------
(* Model of package storage (src/storage/storage.go): the in-memory object  *)
(* store and the retry and LRU-cache decorators, composed into a pipeline   *)
(* over a base store.  A value is a buffer: its bytes and which of two       *)
(* buffers with those bytes it is, so that a copy differs from its source.   *)
EXTENDS Integers, Sequences, FiniteSets, TLC

(* ------------------------------ bounds ---------------------------------- *)
NumKeys == 3
NumVals == 2
MaxAttempts == 3
MaxSize == 2
NumThreads == 2

Keys == 1..NumKeys
\* A nil []byte, and the absence of a key from a map.
Nil == 0
\* A non-nil []byte is one of two buffers (0 and 1) holding given bytes
\* (1..NumVals); two buffers are the same slice iff they are equal here.
Buf(bytes, id) == bytes + NumVals * id
Bytes(b) == IF b = Nil THEN Nil ELSE ((b - 1) % NumVals) + 1
BufId(b) == (b - 1) \div NumVals
\* The buffers the callers pass to Set.
Vals == {Buf(bytes, 0) : bytes \in 1..NumVals}

(* ------------------------------ errors ---------------------------------- *)
ErrNil == <<"nil", 0>>
ErrObjectNotFound == <<"NotFound", 0>>
\* The error value produced by the i-th call that reaches the base store
\* within one top-level operation: every failing call makes its own error.
BaseErr(i) == <<"backend", i>>
\* errors.New("storage: attempts must be greater than zero")
ErrAttempts == <<"config", 0>>
\* 1 for an error other than nil and NotFound, else 0.
Failed(err) == IF err = ErrNil \/ err = ErrObjectNotFound THEN 0 ELSE 1

VARIABLES
    stack,      \* decorators, outermost first: "cache" and "retry" over the base
    attempts,   \* retry.attempts
    size,       \* the size NewCache was given
    faulty,     \* whether the base store may fail (FALSE: it is NewMemory())
    m,          \* memory: key -> contents, Nil when the key is absent
    lru,        \* cache.cache: entries [key, val], most recently used first
    last,       \* what the last top-level call did and returned
    live,       \* history: keys whose latest successful mutation is a Set
    touch,      \* history: the keys the cache holds, latest access first
    pc,         \* per concurrent caller: where it is in its cache call
    loc,        \* per concurrent caller: the call's arguments and locals
    lock        \* the caller inside an lru.Cache method (its mutex), or 0

vars == <<stack, attempts, size, faulty, m, lru, last, live, touch,
          pc, loc, lock>>
conc == <<pc, loc, lock>>
config == <<stack, attempts, size, faulty>>

(* ------------------------------- dup ------------------------------------ *)
\* A copy that is its source: no allocation.
dupShares(in) == in

\* make and copy: the other buffer with the same bytes.
dup(in) == IF in = Nil THEN Nil ELSE Buf(Bytes(in), 1 - BufId(in))

(* ------------------------------ memory ---------------------------------- *)
\* Every handler returns [st, val, err, n, calls, werr, fails]: the state it
\* leaves, its results, the number of calls that have reached the base store
\* so far, the number of calls it made to the store it wraps, the error of
\* the last of them, and how many of them failed with a backend error.
memoryGet(st, key, n) ==
    IF st.m[key] = Nil
    THEN [st |-> st, val |-> Nil, err |-> ErrObjectNotFound, n |-> n,
          calls |-> 0, werr |-> ErrNil, fails |-> 0]
    ELSE [st |-> st, val |-> dup(st.m[key]), err |-> ErrNil, n |-> n,
          calls |-> 0, werr |-> ErrNil, fails |-> 0]

memorySet(st, key, data, n) ==
    [st |-> [st EXCEPT !.m[key] = dup(data)], val |-> Nil, err |-> ErrNil,
     n |-> n, calls |-> 0, werr |-> ErrNil, fails |-> 0]

\* A Delete that reports a missing key.
memoryDeleteStrict(st, key, n) ==
    IF st.m[key] = Nil
    THEN [st |-> st, val |-> Nil, err |-> ErrObjectNotFound, n |-> n,
          calls |-> 0, werr |-> ErrNil, fails |-> 0]
    ELSE [st |-> [st EXCEPT !.m[key] = Nil], val |-> Nil, err |-> ErrNil,
          n |-> n, calls |-> 0, werr |-> ErrNil, fails |-> 0]

memoryDelete(st, key, n) ==
    [st |-> [st EXCEPT !.m[key] = Nil], val |-> Nil, err |-> ErrNil,
     n |-> n, calls |-> 0, werr |-> ErrNil, fails |-> 0]

(* ----------------------------- base store ------------------------------- *)
\* The base of the pipeline: the memory store, or a store that fails the
\* calls the script marks (leaving its contents as they were) and answers
\* the others as the memory store does.
baseCall(op, st, key, data, script, n) ==
    IF script[n + 1]
    THEN [st |-> st, val |-> Nil, err |-> BaseErr(n + 1), n |-> n + 1,
          calls |-> 0, werr |-> ErrNil, fails |-> 1]
    ELSE CASE op = "Get" -> memoryGet(st, key, n + 1)
           [] op = "Set" -> memorySet(st, key, data, n + 1)
           [] op = "Delete" -> memoryDelete(st, key, n + 1)

(* -------------------------------- lru ----------------------------------- *)
lruIndex(c, key) ==
    IF \E i \in 1..Len(c) : c[i].key = key
    THEN CHOOSE i \in 1..Len(c) : c[i].key = key
    ELSE 0

lruContains(c, key) == lruIndex(c, key) # 0

lruWithout(c, key) == SelectSeq(c, LAMBDA e : e.key # key)

\* A lookup that leaves the order alone (first in, first out).
lruGetNoTouch(c, key) ==
    IF lruContains(c, key)
    THEN [c |-> c, val |-> c[lruIndex(c, key)].val, ok |-> TRUE]
    ELSE [c |-> c, val |-> Nil, ok |-> FALSE]

\* Cache.Get: the value and whether it was there; a hit moves it to the front.
lruGet(c, key) ==
    IF lruContains(c, key)
    THEN [c |-> <<c[lruIndex(c, key)]>> \o lruWithout(c, key),
          val |-> c[lruIndex(c, key)].val, ok |-> TRUE]
    ELSE [c |-> c, val |-> Nil, ok |-> FALSE]

\* An Add that never evicts.
lruAddNoEvict(c, key, val, sz) ==
    <<[key |-> key, val |-> val]>> \o lruWithout(c, key)

\* Cache.Add: a present key is updated and moved to the front; a new one is
\* pushed to the front and the oldest entry goes when the cache is over size.
lruAdd(c, key, val, sz) ==
    IF lruContains(c, key)
    THEN <<[key |-> key, val |-> val]>> \o lruWithout(c, key)
    ELSE LET pushed == <<[key |-> key, val |-> val]>> \o c
         IN IF Len(pushed) > sz THEN SubSeq(pushed, 1, Len(pushed) - 1)
            ELSE pushed

\* A Remove that drops the oldest entry instead of the key (RemoveOldest).
lruRemoveOldest(c, key) ==
    IF c = <<>> THEN c ELSE SubSeq(c, 1, Len(c) - 1)

\* Cache.Remove
lruRemove(c, key) == lruWithout(c, key)


(* ---------------------------- the pipeline ------------------------------ *)
\* base.Get / base.Set / base.Delete of a decorator whose wrapped store is
\* the pipeline `layers` (outermost first) over the base store.
RECURSIVE call(_, _, _, _, _, _, _)

(* ------------------------------- retry ---------------------------------- *)
\* The nil store NewRetry returns with an error: nothing can be called on it.
NoStore == <<"nil">>

\* A NewRetry that rejects only negative attempts.
NewRetryAllowsZero(base, att) ==
    IF att < 0
    THEN [store |-> NoStore, err |-> ErrAttempts]
    ELSE [store |-> <<"retry">> \o base, err |-> ErrNil]

\* NewRetry over the pipeline `base`: the store (the pipeline with retry
\* outermost) and the error.
NewRetry(base, att) ==
    IF att <= 0
    THEN [store |-> NoStore, err |-> ErrAttempts]
    ELSE [store |-> <<"retry">> \o base, err |-> ErrNil]

\* The loops of retry.Get, retry.Set and retry.Delete from iteration i on;
\* r holds the named results (and the state) as the iterations so far left
\* them.
\* A Get loop that returns after its first call, whatever it answered.
retryGetLoopOnce(base, key, script, i, c, r) ==
    LET w == call(base, "Get", r.st, key, Nil, script, r.n)
    IN [w EXCEPT !.calls = c + 1, !.werr = w.err,
                 !.fails = r.fails + Failed(w.err)]

\* A Get loop that retries NotFound like any other error.
RECURSIVE retryGetLoopRetriesNotFound(_, _, _, _, _, _)
retryGetLoopRetriesNotFound(base, key, script, i, c, r) ==
    IF i < attempts
    THEN LET w == call(base, "Get", r.st, key, Nil, script, r.n)
             r2 == [w EXCEPT !.calls = c + 1, !.werr = w.err,
                             !.fails = r.fails + Failed(w.err)]
         IN IF w.err = ErrNil
            THEN r2
            ELSE retryGetLoopRetriesNotFound(base, key, script, i + 1,
                                             c + 1, r2)
    ELSE r

RECURSIVE retryGetLoop(_, _, _, _, _, _)
retryGetLoop(base, key, script, i, c, r) ==
    IF i < attempts
    THEN LET w == call(base, "Get", r.st, key, Nil, script, r.n)
             r2 == [w EXCEPT !.calls = c + 1, !.werr = w.err,
                             !.fails = r.fails + Failed(w.err)]
         IN IF w.err = ErrNil \/ w.err = ErrObjectNotFound
            THEN r2
            ELSE retryGetLoop(base, key, script, i + 1, c + 1, r2)
    ELSE r

retryGet(base, st, key, script, n) ==
    retryGetLoop(base, key, script, 0, 0,
                 [st |-> st, val |-> Nil, err |-> ErrNil, n |-> n,
                  calls |-> 0, werr |-> ErrNil, fails |-> 0])

\* A Set loop that does not stop at a success.
RECURSIVE retrySetLoopNoStop(_, _, _, _, _, _, _)
retrySetLoopNoStop(base, key, data, script, i, c, r) ==
    IF i < attempts
    THEN LET w == call(base, "Set", r.st, key, data, script, r.n)
             r2 == [w EXCEPT !.val = Nil, !.calls = c + 1, !.werr = w.err,
                             !.fails = r.fails + Failed(w.err)]
         IN retrySetLoopNoStop(base, key, data, script, i + 1, c + 1, r2)
    ELSE r

RECURSIVE retrySetLoop(_, _, _, _, _, _, _)
retrySetLoop(base, key, data, script, i, c, r) ==
    IF i < attempts
    THEN LET w == call(base, "Set", r.st, key, data, script, r.n)
             r2 == [w EXCEPT !.val = Nil, !.calls = c + 1, !.werr = w.err,
                             !.fails = r.fails + Failed(w.err)]
         IN IF w.err = ErrNil
            THEN r2
            ELSE retrySetLoop(base, key, data, script, i + 1, c + 1, r2)
    ELSE r

retrySet(base, st, key, data, script, n) ==
    retrySetLoop(base, key, data, script, 0, 0,
                 [st |-> st, val |-> Nil, err |-> ErrNil, n |-> n,
                  calls |-> 0, werr |-> ErrNil, fails |-> 0])

RECURSIVE retryDeleteLoop(_, _, _, _, _, _)
retryDeleteLoop(base, key, script, i, c, r) ==
    IF i < attempts
    THEN LET w == call(base, "Delete", r.st, key, Nil, script, r.n)
             r2 == [w EXCEPT !.val = Nil, !.calls = c + 1, !.werr = w.err,
                             !.fails = r.fails + Failed(w.err)]
         IN IF w.err = ErrNil
            THEN r2
            ELSE retryDeleteLoop(base, key, script, i + 1, c + 1, r2)
    ELSE r

retryDelete(base, st, key, script, n) ==
    retryDeleteLoop(base, key, script, 0, 0,
                    [st |-> st, val |-> Nil, err |-> ErrNil, n |-> n,
                     calls |-> 0, werr |-> ErrNil, fails |-> 0])

(* ------------------------------- cache ---------------------------------- *)
\* A Get whose hit reads the entry without moving it (a Peek).
cacheGetPeeks(base, st, key, script, n) ==
    IF lruContains(st.lru, key)
    THEN [st |-> st, val |-> dup(st.lru[lruIndex(st.lru, key)].val),
          err |-> ErrNil, n |-> n, calls |-> 0, werr |-> ErrNil,
          fails |-> 0]
    ELSE LET w == call(base, "Get", st, key, Nil, script, n)
         IN IF w.err # ErrNil
            THEN [w EXCEPT !.val = Nil, !.calls = 1, !.werr = w.err,
                           !.fails = Failed(w.err)]
            ELSE [w EXCEPT !.st.lru = lruAdd(w.st.lru, key, dup(w.val), size),
                           !.calls = 1, !.werr = w.err, !.fails = 0]

\* A Get that remembers a NotFound answer in the cache.
cacheGetCachesNotFound(base, st, key, script, n) ==
    LET g == lruGet(st.lru, key)
    IN IF g.ok
       THEN [st |-> [st EXCEPT !.lru = g.c], val |-> dup(g.val),
             err |-> ErrNil, n |-> n, calls |-> 0, werr |-> ErrNil,
             fails |-> 0]
       ELSE LET w == call(base, "Get", [st EXCEPT !.lru = g.c], key, Nil,
                          script, n)
            IN IF Failed(w.err) = 1
               THEN [w EXCEPT !.val = Nil, !.calls = 1, !.werr = w.err,
                              !.fails = 1]
               ELSE [w EXCEPT !.st.lru = lruAdd(w.st.lru, key, dup(w.val), size),
                              !.calls = 1, !.werr = w.err, !.fails = 0]

cacheGet(base, st, key, script, n) ==
    LET g == lruGet(st.lru, key)
    IN IF g.ok
       THEN [st |-> [st EXCEPT !.lru = g.c], val |-> dup(g.val),
             err |-> ErrNil, n |-> n, calls |-> 0, werr |-> ErrNil,
             fails |-> 0]
       ELSE LET w == call(base, "Get", [st EXCEPT !.lru = g.c], key, Nil,
                          script, n)
            IN IF w.err # ErrNil
               THEN [w EXCEPT !.val = Nil, !.calls = 1, !.werr = w.err,
                              !.fails = Failed(w.err)]
               ELSE [w EXCEPT !.st.lru = lruAdd(w.st.lru, key, dup(w.val), size),
                              !.calls = 1, !.werr = w.err, !.fails = 0]

\* A Set that fills the cache only when the key was not cached before.
cacheSetFillsOnlyNew(base, st, key, data, script, n) ==
    LET w == call(base, "Set", [st EXCEPT !.lru = lruRemove(st.lru, key)],
                  key, data, script, n)
    IN IF w.err # ErrNil \/ lruContains(st.lru, key)
       THEN [w EXCEPT !.val = Nil, !.calls = 1, !.werr = w.err,
                      !.fails = Failed(w.err)]
       ELSE [w EXCEPT !.st.lru = lruAdd(w.st.lru, key, dup(data), size),
                      !.val = Nil, !.calls = 1, !.werr = w.err, !.fails = 0]

\* A Set that puts the value in the cache before the write is confirmed.
cacheSetAddsFirst(base, st, key, data, script, n) ==
    LET w == call(base, "Set",
                  [st EXCEPT !.lru = lruAdd(st.lru, key, dup(data), size)],
                  key, data, script, n)
    IN [w EXCEPT !.val = Nil, !.calls = 1, !.werr = w.err,
                 !.fails = Failed(w.err)]

\* A Set that invalidates the cache entry and never fills it.
cacheSetNoFill(base, st, key, data, script, n) ==
    LET w == call(base, "Set", [st EXCEPT !.lru = lruRemove(st.lru, key)],
                  key, data, script, n)
    IN [w EXCEPT !.val = Nil, !.calls = 1, !.werr = w.err,
                 !.fails = Failed(w.err)]

\* A Set that does not remove the old cache entry before the write.
cacheSetNoRemove(base, st, key, data, script, n) ==
    LET w == call(base, "Set", st, key, data, script, n)
    IN IF w.err # ErrNil
       THEN [w EXCEPT !.val = Nil, !.calls = 1, !.werr = w.err,
                      !.fails = Failed(w.err)]
       ELSE [w EXCEPT !.st.lru = lruAdd(w.st.lru, key, dup(data), size),
                      !.val = Nil, !.calls = 1, !.werr = w.err, !.fails = 0]

\* A Set that writes to the wrapped store and leaves the cache as it is.
cacheSetKeepsCache(base, st, key, data, script, n) ==
    LET w == call(base, "Set", st, key, data, script, n)
    IN [w EXCEPT !.val = Nil, !.calls = 1, !.werr = w.err,
                 !.fails = Failed(w.err)]

cacheSet(base, st, key, data, script, n) ==
    LET w == call(base, "Set", [st EXCEPT !.lru = lruRemove(st.lru, key)],
                  key, data, script, n)
    IN IF w.err # ErrNil
       THEN [w EXCEPT !.val = Nil, !.calls = 1, !.werr = w.err,
                      !.fails = Failed(w.err)]
       ELSE [w EXCEPT !.st.lru = lruAdd(w.st.lru, key, dup(data), size),
                      !.val = Nil, !.calls = 1, !.werr = w.err, !.fails = 0]

\* A Delete that removes the key from the cache only once the wrapped
\* Delete has succeeded.
cacheDeleteRemovesOnSuccess(base, st, key, script, n) ==
    LET w == call(base, "Delete", st, key, Nil, script, n)
    IN IF w.err # ErrNil
       THEN [w EXCEPT !.val = Nil, !.calls = 1, !.werr = w.err,
                      !.fails = Failed(w.err)]
       ELSE [w EXCEPT !.st.lru = lruRemove(w.st.lru, key), !.val = Nil,
                      !.calls = 1, !.werr = w.err, !.fails = 0]

\* A Delete that forgets to remove the key from the cache.
cacheDeleteKeepsCache(base, st, key, script, n) ==
    LET w == call(base, "Delete", st, key, Nil, script, n)
    IN [w EXCEPT !.val = Nil, !.calls = 1, !.werr = w.err,
                 !.fails = Failed(w.err)]

cacheDelete(base, st, key, script, n) ==
    LET w == call(base, "Delete", [st EXCEPT !.lru = lruRemove(st.lru, key)],
                  key, Nil, script, n)
    IN [w EXCEPT !.val = Nil, !.calls = 1, !.werr = w.err,
                 !.fails = Failed(w.err)]

call(layers, op, st, key, data, script, n) ==
    IF layers = <<>>
    THEN baseCall(op, st, key, data, script, n)
    ELSE LET base == Tail(layers)
         IN CASE Head(layers) = "retry" /\ op = "Get" ->
                     retryGet(base, st, key, script, n)
              [] Head(layers) = "retry" /\ op = "Set" ->
                     retrySet(base, st, key, data, script, n)
              [] Head(layers) = "retry" /\ op = "Delete" ->
                     retryDelete(base, st, key, script, n)
              [] Head(layers) = "cache" /\ op = "Get" ->
                     cacheGet(base, st, key, script, n)
              [] Head(layers) = "cache" /\ op = "Set" ->
                     cacheSet(base, st, key, data, script, n)
              [] Head(layers) = "cache" /\ op = "Delete" ->
                     cacheDelete(base, st, key, script, n)

(* --------------------------- the state machine -------------------------- *)
\* The pipelines NewMemory, NewRetry and NewCache can build with at most one
\* decorator of each kind.
Stacks == {<<>>, <<"retry">>, <<"cache">>, <<"cache", "retry">>,
           <<"retry", "cache">>}

HasLayer(l) == \E i \in 1..Len(stack) : stack[i] = l

\* The most calls one top-level operation can make to the base store.
MaxCalls == IF HasLayer("retry") THEN attempts ELSE 1

\* Which calls to the base store fail: any of them when the base is faulty,
\* none when it is the memory store.
Scripts ==
    IF faulty THEN [1..MaxCalls -> BOOLEAN]
    ELSE {[i \in 1..MaxCalls |-> FALSE]}

store == [m |-> m, lru |-> lru]

\* What a top-level call did: its arguments and results, the calls its
\* outermost decorator made to the store it wraps, and whether the cache held
\* the key, and was full, when the call began.
Record(op, key, data, r) ==
    [op |-> op, key |-> key, data |-> data, val |-> r.val, err |-> r.err,
     calls |-> r.calls, werr |-> r.werr, n |-> r.n, fails |-> r.fails,
     cached |-> lruContains(lru, key), full |-> Len(lru) = size]

\* The keys whose latest successful mutation, as the caller saw it, is a Set.
Lived(op, key, err) ==
    IF err # ErrNil \/ op = "Get" THEN live
    ELSE IF op = "Set" THEN live \cup {key} ELSE live \ {key}

\* The keys of a cache outermost in the pipeline in the order of their last
\* access as the caller saw it: a Get or a Set that returned no error is an
\* access to its key.  Keys the cache no longer holds are dropped.
Touched(op, key, r) ==
    IF stack = <<>> \/ Head(stack) # "cache" THEN <<>>
    ELSE LET t == IF r.err = ErrNil /\ op \in {"Get", "Set"}
                  THEN <<key>> \o SelectSeq(touch, LAMBDA k : k # key)
                  ELSE touch
         IN SelectSeq(t, LAMBDA k : lruContains(r.st.lru, k))

Finish(op, key, data, r) ==
    /\ m' = r.st.m
    /\ lru' = r.st.lru
    /\ last' = Record(op, key, data, r)
    /\ live' = Lived(op, key, r.err)
    /\ touch' = Touched(op, key, r)
    /\ UNCHANGED <<config, conc>>

Get ==
    \E key \in Keys, script \in Scripts :
        /\ stack # NoStore
        /\ Finish("Get", key, Nil, call(stack, "Get", store, key, Nil, script, 0))

Set ==
    \E key \in Keys, data \in Vals, script \in Scripts :
        /\ stack # NoStore
        /\ Finish("Set", key, data,
               call(stack, "Set", store, key, data, script, 0))

Delete ==
    \E key \in Keys, script \in Scripts :
        /\ stack # NoStore
        /\ Finish("Delete", key, Nil,
               call(stack, "Delete", store, key, Nil, script, 0))

Next == Get \/ Set \/ Delete

NoCall ==
    [op |-> "New", key |-> Nil, data |-> Nil, val |-> Nil, err |-> ErrNil,
     calls |-> 0, werr |-> ErrNil, n |-> 0, fails |-> 0, cached |-> FALSE,
     full |-> FALSE]

Threads == 1..NumThreads
NoThread == 0
NoLocals == [op |-> "none", key |-> Nil, data |-> Nil, val |-> Nil]

\* NewMemory's empty map, lru.New's empty cache, and no call made yet.
Fresh ==
    /\ m = [k \in Keys |-> Nil]
    /\ lru = <<>>
    /\ last = NoCall
    /\ live = {}
    /\ touch = <<>>
    /\ pc = [t \in Threads |-> "idle"]
    /\ loc = [t \in Threads |-> NoLocals]
    /\ lock = NoThread

\* Every pipeline, over a base store that may fail or not.
Init ==
    /\ stack \in Stacks
    /\ attempts \in 1..MaxAttempts
    /\ size \in 1..MaxSize
    /\ faulty \in BOOLEAN
    /\ Fresh

Spec == Init /\ [][Next]_vars

\* Every pipeline over the memory store.
InitMem ==
    /\ stack \in Stacks
    /\ attempts \in 1..MaxAttempts
    /\ size \in 1..MaxSize
    /\ faulty = FALSE
    /\ Fresh

SpecMem == InitMem /\ [][Next]_vars

\* The retry decorator alone over a base store that may fail.
InitRetry ==
    /\ stack = <<"retry">>
    /\ attempts \in 1..MaxAttempts
    /\ size = 1
    /\ faulty = TRUE
    /\ Fresh

SpecRetry == InitRetry /\ [][Next]_vars

\* The cache decorator alone over a base store that may fail.
InitCache ==
    /\ stack = <<"cache">>
    /\ attempts = 1
    /\ size \in 1..MaxSize
    /\ faulty = TRUE
    /\ Fresh

SpecCache == InitCache /\ [][Next]_vars

\* A caller writes other bytes into a buffer it holds: the one it passed to
\* the Set that has just returned, or the one the Get that has just returned
\* gave it.  Whatever holds that same buffer sees the new bytes.
Mutate ==
    \E bytes \in 1..NumVals :
        LET b == IF last.op = "Set" THEN last.data ELSE last.val
            b2 == Buf(bytes, BufId(b))
            wr(x) == IF x = b THEN b2 ELSE x
        IN /\ stack # NoStore
           /\ last.op \in {"Get", "Set"}
           /\ b # Nil
           /\ bytes # Bytes(b)
           /\ m' = [k \in Keys |-> wr(m[k])]
           /\ lru' = [i \in 1..Len(lru) |-> [lru[i] EXCEPT !.val = wr(@)]]
           /\ last' = [last EXCEPT !.op = "Mutate", !.data = b, !.val = b2]
           /\ UNCHANGED <<config, live, touch, conc>>

NextBuf == Next \/ Mutate

\* Every pipeline over the memory store; the store never fails, so the retry
\* loops make one call whatever the number of attempts is.
InitBuf ==
    /\ stack \in Stacks
    /\ attempts = 1
    /\ size \in 1..MaxSize
    /\ faulty = FALSE
    /\ Fresh

\* Callers that write to the buffers they hold.
SpecBuf == InitBuf /\ [][NextBuf]_vars

(* ------------------------- concurrent callers --------------------------- *)
\* Several callers in cache.Get / cache.Set / cache.Delete at once, over the
\* memory store taken as linearizable: each call to it takes effect at one
\* step between its start and its return.  Every lru.Cache method runs under
\* the cache's mutex.  The callers use one key.
ConcKeys == {1}

\* An unlock deferred to the return of the cache method that called the lru.
lruUnlockDeferred(t) == t

\* The mutex when an lru.Cache method returns.
lruUnlock(t) == NoThread

Return(t) ==
    /\ pc' = [pc EXCEPT ![t] = "idle"]
    /\ loc' = [loc EXCEPT ![t] = NoLocals]

\* A caller enters cache.Get, cache.Set or cache.Delete and its first lru
\* method (c.cache.Get or c.cache.Remove) takes the mutex.
Enter(t) ==
    /\ pc[t] = "idle" /\ lock = NoThread
    /\ \E op \in {"Get", "Set", "Delete"}, key \in ConcKeys, data \in Vals :
           loc' = [loc EXCEPT ![t] =
                      [op |-> op, key |-> key,
                       data |-> IF op = "Set" THEN data ELSE Nil,
                       val |-> Nil]]
    /\ pc' = [pc EXCEPT ![t] = "lru"]
    /\ lock' = t
    /\ UNCHANGED <<config, m, lru, last, live, touch>>

\* c.cache.Get (cache.Get) or c.cache.Remove (cache.Set, cache.Delete) runs
\* and returns: a hit returns from cache.Get, everything else goes on to
\* call the wrapped store.
FirstLru(t) ==
    /\ pc[t] = "lru" /\ lock = t
    /\ lock' = lruUnlock(t)
    /\ IF loc[t].op = "Get"
       THEN LET g == lruGet(lru, loc[t].key)
            IN /\ lru' = g.c
               /\ IF g.ok THEN Return(t)
                  ELSE /\ pc' = [pc EXCEPT ![t] = "base"]
                       /\ loc' = loc
       ELSE /\ lru' = lruRemove(lru, loc[t].key)
            /\ pc' = [pc EXCEPT ![t] = "base"]
            /\ loc' = loc
    /\ UNCHANGED <<config, m, last, live, touch>>

\* The call to the wrapped store takes effect and returns.  cache.Delete
\* returns, and so does a cache.Get that got an error; the others go on to
\* c.cache.Add and wait for the mutex.
WrappedReturns(t) ==
    /\ pc[t] = "base"
    /\ LET r == call(Tail(stack), loc[t].op, store, loc[t].key, loc[t].data,
                     <<FALSE>>, 0)
       IN /\ m' = r.st.m
          /\ IF loc[t].op = "Delete" \/ r.err # ErrNil
             THEN Return(t)
             ELSE /\ pc' = [pc EXCEPT ![t] = "wantAdd"]
                  /\ loc' = [loc EXCEPT ![t].val =
                                 IF loc[t].op = "Get" THEN r.val
                                 ELSE loc[t].data]
    /\ UNCHANGED <<config, lru, last, live, touch, lock>>

\* c.cache.Add takes the mutex.
EnterAdd(t) ==
    /\ pc[t] = "wantAdd" /\ lock = NoThread
    /\ pc' = [pc EXCEPT ![t] = "add"]
    /\ lock' = t
    /\ UNCHANGED <<config, m, lru, last, live, touch, loc>>

\* c.cache.Add(key, dup(data)) runs and cache.Get / cache.Set returns.
Add(t) ==
    /\ pc[t] = "add" /\ lock = t
    /\ lru' = lruAdd(lru, loc[t].key, dup(loc[t].val), size)
    /\ lock' = lruUnlock(t)
    /\ Return(t)
    /\ UNCHANGED <<config, m, last, live, touch>>

NextConc ==
    \E t \in Threads :
        Enter(t) \/ FirstLru(t) \/ WrappedReturns(t) \/ EnterAdd(t) \/ Add(t)

\* The cache decorator over the memory store, used by concurrent callers.
InitConc ==
    /\ stack = <<"cache">>
    /\ attempts = 1
    /\ size \in 1..MaxSize
    /\ faulty = FALSE
    /\ Fresh

SpecConc == InitConc /\ [][NextConc]_vars

\* NewRetry called with any number of attempts, also zero and negative ones,
\* over a base store that may fail or not.
AttemptsArgs == -1..MaxAttempts

InitNew ==
    /\ attempts \in AttemptsArgs
    /\ stack = NewRetry(<<>>, attempts).store
    /\ size = 1
    /\ faulty \in BOOLEAN
    /\ m = [k \in Keys |-> Nil]
    /\ lru = <<>>
    /\ last = [NoCall EXCEPT !.err = NewRetry(<<>>, attempts).err]
    /\ live = {}
    /\ touch = <<>>
    /\ pc = [t \in Threads |-> "idle"]
    /\ loc = [t \in Threads |-> NoLocals]
    /\ lock = NoThread

SpecNew == InitNew /\ [][Next]_vars

(* ------------------------------ properties ------------------------------ *)
\* What Get(key) returns when it is the next call, under a fault script.
NextGet(key, script) == call(stack, "Get", store, key, Nil, script, 0)

Called == last.op \in {"Get", "Set", "Delete"}
CacheOutermost == stack # <<>> /\ Head(stack) = "cache"

\* C1 (read-your-writes): in every pipeline over the memory store, right
\* after a Set(k, v) that returned no error, Get(k) returns no error and a
\* value equal to v.
C1_ReadYourWrites ==
    (last.op = "Set" /\ last.err = ErrNil) =>
        \A script \in Scripts :
            /\ NextGet(last.key, script).err = ErrNil
            /\ Bytes(NextGet(last.key, script).val) = Bytes(last.data)

\* A Set through cache over retry has replaced a cached, different value, and
\* the Get that follows returns the new one.
C1_Witness ==
    /\ stack = <<"cache", "retry">>
    /\ last.op = "Set" /\ last.err = ErrNil /\ last.cached
    /\ \E k \in Keys \ {last.key} : Bytes(m[k]) \notin {Nil, Bytes(last.data)}
    /\ \A script \in Scripts :
           Bytes(NextGet(last.key, script).val) = Bytes(last.data)

\* C2 (absent keys report NotFound): in every pipeline over the memory store,
\* Get(k) returns NotFound and no value whenever k was never successfully Set
\* or its latest successful mutation is a Delete: for the Get that has just
\* returned, and for the Get of any such key as the next call; in particular
\* right after a successful Delete.
C2_AbsentNotFound ==
    /\ (last.op = "Get" /\ last.key \notin live) =>
           (last.err = ErrObjectNotFound /\ last.val = Nil)
    /\ \A k \in Keys \ live : \A script \in Scripts :
           /\ NextGet(k, script).err = ErrObjectNotFound
           /\ NextGet(k, script).val = Nil
    /\ (last.op = "Delete" /\ last.err = ErrNil) => last.key \notin live

\* A Delete through a cache that held the key has succeeded, and the Get that
\* follows returns NotFound.
C2_Witness ==
    /\ CacheOutermost
    /\ last.op = "Delete" /\ last.err = ErrNil /\ last.cached
    /\ live # {}
    /\ \A script \in Scripts :
           NextGet(last.key, script).err = ErrObjectNotFound

\* C3 (retry exhaustion): when every call a retry operation made to the
\* wrapped store failed with a backend error, the operation made exactly
\* `attempts` calls and returned the error of the last of them.
C3_RetryExhaustion ==
    (Called /\ last.fails = last.calls) =>
        /\ last.calls = attempts
        /\ last.n = attempts
        /\ last.err = BaseErr(attempts)
        /\ last.err = last.werr

\* An operation has exhausted the largest number of attempts.
C3_Witness ==
    /\ Called /\ attempts = MaxAttempts /\ attempts > 1
    /\ last.fails = attempts /\ last.calls = attempts
    /\ last.err = BaseErr(attempts)

\* C4 (retry stops at the first success): a retry operation makes between 1
\* and `attempts` wrapped calls; when one of them does not fail it is the
\* last call made, all calls before it failed, and the operation returns its
\* result (success, with the stored value for a Get of a present key).
C4_RetryStopsAtSuccess ==
    Called =>
        /\ last.calls \in 1..attempts
        /\ last.calls = last.n
        /\ last.calls > last.fails =>
               /\ last.calls = last.fails + 1
               /\ last.werr \in {ErrNil, ErrObjectNotFound}
               /\ last.err = last.werr
        /\ last.werr = ErrNil =>
               /\ last.err = ErrNil
               /\ last.op = "Get" => Bytes(last.val) = Bytes(m[last.key])
               /\ last.op = "Set" => Bytes(m[last.key]) = Bytes(last.data)
               /\ last.op = "Delete" => m[last.key] = Nil

\* A Set succeeds on its last attempt after every earlier attempt failed.
C4_Witness ==
    /\ last.op = "Set" /\ attempts = MaxAttempts /\ attempts > 1
    /\ last.fails = attempts - 1 /\ last.calls = attempts
    /\ last.err = ErrNil

\* C5 (NotFound is terminal for retry.Get): when a wrapped Get of a key the
\* wrapped store does not hold answers (NotFound) instead of failing, retry.Get
\* has made no call after it and returns NotFound and no value, whatever
\* number of attempts remains.
C5_NotFoundTerminal ==
    (last.op = "Get" /\ m[last.key] = Nil /\ last.calls > last.fails) =>
        /\ last.calls = last.fails + 1
        /\ last.werr = ErrObjectNotFound
        /\ last.err = ErrObjectNotFound
        /\ last.val = Nil

\* NotFound arrives on the second attempt of three, after a failure.
C5_Witness ==
    /\ last.op = "Get" /\ last.err = ErrObjectNotFound
    /\ last.fails = 1 /\ last.calls = 2 /\ attempts = 3

KeySet(c) == {c[i].key : i \in 1..Len(c)}
ValOf(c, key) == c[CHOOSE i \in 1..Len(c) : c[i].key = key].val

\* C6 (cache coherence): for a cache that is the only writer of a wrapped
\* store whose failed calls change nothing, every key the cache holds is in
\* the wrapped store with an equal value, whatever calls failed before.
C6_CacheCoherent ==
    /\ \A i \in 1..Len(lru) :
           /\ lru[i].val # Nil
           /\ Bytes(m[lru[i].key]) = Bytes(lru[i].val)
    /\ \A i, j \in 1..Len(lru) : lru[i].key = lru[j].key => i = j

\* A Set that tried to change a stored value has just failed and the cache,
\* two entries full, still agrees with the store.
C6_Witness ==
    /\ last.op = "Set" /\ last.err = BaseErr(1) /\ last.cached
    /\ Bytes(m[last.key]) \notin {Nil, Bytes(last.data)}
    /\ Len(lru) >= 1 /\ size = 2
    /\ \A i \in 1..Len(lru) : Bytes(m[lru[i].key]) = Bytes(lru[i].val)

\* C7 (cache fill on write): right after cache.Set(k, v) returned no error,
\* cache.Get(k) returns v and makes no call to the wrapped store, also when
\* the wrapped store would fail.
C7_FillOnWrite ==
    (last.op = "Set" /\ last.err = ErrNil) =>
        \A script \in Scripts :
            /\ NextGet(last.key, script).err = ErrNil
            /\ Bytes(NextGet(last.key, script).val) = Bytes(last.data)
            /\ NextGet(last.key, script).calls = 0
            /\ NextGet(last.key, script).n = 0

\* A Set of a key the full cache did not hold has succeeded, and the Get that
\* follows is answered without the wrapped store.
C7_Witness ==
    /\ last.op = "Set" /\ last.err = ErrNil /\ last.full /\ ~last.cached
    /\ \A script \in Scripts :
           /\ NextGet(last.key, script).calls = 0
           /\ Bytes(NextGet(last.key, script).val) = Bytes(last.data)

\* C8 (failed write through the cache): when the wrapped Set fails, cache.Set
\* returns that error, the key is absent from the cache afterwards (cached
\* before or not), the other entries and their order are as before, and the
\* next Get of the key calls the wrapped store.
C8_FailedWrite ==
    [][(last'.op = "Set" /\ last'.err # ErrNil) =>
          /\ last'.calls = 1
          /\ last'.err = last'.werr
          /\ last'.key \notin KeySet(lru')
          /\ lru' = SelectSeq(lru, LAMBDA e : e.key # last'.key)
          /\ m' = m
          /\ \A script \in Scripts :
                 call(stack, "Get", [m |-> m', lru |-> lru'], last'.key, Nil,
                      script, 0).calls = 1]_vars

\* A Set of a cached key has failed; the key has left the cache, another
\* entry is still there, and the next Get goes to the wrapped store.
C8_Witness ==
    /\ last.op = "Set" /\ last.err = BaseErr(1) /\ last.cached
    /\ last.key \notin KeySet(lru) /\ Len(lru) = 1
    /\ Bytes(m[last.key]) \notin {Nil, Bytes(last.data)}
    /\ \A script \in Scripts : NextGet(last.key, script).calls = 1

\* C9 (LRU victim selection): when a full cache of capacity C takes in a key
\* it does not hold (a Set that succeeded, or a Get miss the wrapped store
\* answered), exactly one entry leaves, the one whose last access is the
\* oldest; every other entry stays with its value.  With C = 1 the Get of any
\* other key after such a call reaches the wrapped store (Set(a), Set(b),
\* Get(a), Get(b): both Gets do).
C9_LruVictim ==
    [][/\ (/\ last'.op \in {"Get", "Set"} /\ last'.err = ErrNil
           /\ last'.key \notin KeySet(lru) /\ Len(lru) = size) =>
              /\ Len(touch) = size
              /\ KeySet(lru') =
                     (KeySet(lru) \ {touch[Len(touch)]}) \cup {last'.key}
              /\ Cardinality(KeySet(lru')) = size
              /\ Len(lru') = size
              /\ \A k \in KeySet(lru) \ {touch[Len(touch)]} :
                     ValOf(lru', k) = ValOf(lru, k)
       /\ (last'.op \in {"Get", "Set"} /\ last'.err = ErrNil /\ size = 1) =>
              \A k \in Keys \ {last'.key} : \A script \in Scripts :
                  call(stack, "Get", [m |-> m', lru |-> lru'], k, Nil,
                       script, 0).calls = 1]_vars

\* A Get miss has filled a full cache of two entries: the new key is in
\* front and the entry that stayed is the one accessed later of the two.
C9_Witness ==
    /\ size = 2 /\ last.op = "Get" /\ last.err = ErrNil
    /\ last.full /\ ~last.cached /\ last.calls = 1
    /\ Len(lru) = 2 /\ lru[1].key = last.key
    /\ touch = <<lru[1].key, lru[2].key>>

\* C10 (failed read through the cache): when cache.Get misses and the wrapped
\* Get fails, with NotFound or with another error, cache.Get returns that
\* error and no value, and the cache has the keys, values and order it had.
C10_FailedRead ==
    [][(last'.op = "Get" /\ last'.key \notin KeySet(lru)
        /\ last'.err # ErrNil) =>
          /\ last'.calls = 1
          /\ last'.err = last'.werr
          /\ last'.val = Nil
          /\ lru' = lru
          /\ touch' = touch
          /\ m' = m]_vars

\* A Get of a key neither cached nor stored returned NotFound with the cache
\* full.
C10_Witness ==
    /\ last.op = "Get" /\ ~last.cached /\ last.err = ErrObjectNotFound
    /\ last.werr = ErrObjectNotFound /\ last.calls = 1
    /\ Len(lru) = 2 /\ size = 2

\* C11 (Delete through the cache): cache.Delete makes one wrapped call and
\* returns its result; the key is out of the cache afterwards whether that
\* call succeeded or failed, and the other entries and their order are as
\* before.  After a failed Delete of a key the wrapped store still holds, the
\* next Get of the key calls the wrapped store and, when that call answers,
\* returns the stored value.
C11_DeleteThroughCache ==
    [][last'.op = "Delete" =>
          /\ last'.calls = 1
          /\ last'.err = last'.werr
          /\ last'.key \notin KeySet(lru')
          /\ lru' = SelectSeq(lru, LAMBDA e : e.key # last'.key)
          /\ last'.err = ErrNil => m'[last'.key] = Nil
          /\ (last'.err # ErrNil /\ m'[last'.key] # Nil) =>
                 \A script \in Scripts :
                     LET g == call(stack, "Get", [m |-> m', lru |-> lru'],
                                   last'.key, Nil, script, 0)
                     IN /\ g.calls = 1
                        /\ g.err = ErrNil =>
                               /\ Bytes(g.val) = Bytes(m'[last'.key])
                               /\ ~script[1]
                        /\ ~script[1] => g.err = ErrNil]_vars

\* A Delete of a cached and stored key has failed: the key has left the
\* cache, another entry is still there, the store still holds the key.
C11_Witness ==
    /\ last.op = "Delete" /\ last.err = BaseErr(1) /\ last.cached
    /\ last.key \notin KeySet(lru) /\ Len(lru) = 1
    /\ m[last.key] # Nil
    /\ \A script \in Scripts : NextGet(last.key, script).calls = 1

\* C15 (memory.Delete): on the memory store alone Delete(k) returns no
\* error whether k is present or not; afterwards k is absent and every other
\* key has the value it had.
C15_MemoryDelete ==
    [][(stack = <<>> /\ last'.op = "Delete") =>
          /\ last'.err = ErrNil
          /\ m'[last'.key] = Nil
          /\ \A k \in Keys \ {last'.key} : m'[k] = m[k]]_vars

\* The memory store alone has deleted a key while it holds another.
C15_Witness ==
    /\ stack = <<>> /\ last.op = "Delete" /\ last.err = ErrNil
    /\ m[last.key] = Nil
    /\ \E k \in Keys : m[k] # Nil

\* C17 (bounded cache): a cache built with capacity C >= 1 never holds more
\* than C entries, whatever calls succeeded or failed, and C never changes.
C17_BoundedCache ==
    [][/\ size >= 1 /\ size' = size
       /\ Len(lru) <= size /\ Len(lru') <= size
       /\ Cardinality(KeySet(lru')) = Len(lru')]_vars

\* A Set has put a new key in a cache that was full with two entries, and the
\* cache still holds two.
C17_Witness ==
    /\ size = 2 /\ last.op = "Set" /\ last.err = ErrNil
    /\ last.full /\ ~last.cached /\ Len(lru) = size

\* C18 (a cache hit is a recency touch): a cache.Get that hits returns the
\* cached value without a wrapped call and leaves its key the most recently
\* used entry; so with capacity C >= 2 and the cache full, the next insertion
\* of a new key (a Set, or a Get miss, that succeeds) evicts another key.
C18_HitTouches ==
    (last.op = "Get" /\ last.cached) =>
        /\ last.calls = 0 /\ last.n = 0 /\ last.err = ErrNil
        /\ Len(lru) >= 1 /\ lru[1].key = last.key
        /\ Bytes(lru[1].val) = Bytes(last.val)
        /\ (size >= 2 /\ Len(lru) = size) =>
               \A k \in Keys \ KeySet(lru) : \A script \in Scripts :
                   /\ \A data \in Vals :
                          LET r == call(stack, "Set", store, k, data, script, 0)
                          IN r.err = ErrNil =>
                                 /\ last.key \in KeySet(r.st.lru)
                                 /\ k \in KeySet(r.st.lru)
                   /\ LET r == call(stack, "Get", store, k, Nil, script, 0)
                      IN r.err = ErrNil =>
                             /\ last.key \in KeySet(r.st.lru)
                             /\ k \in KeySet(r.st.lru)

\* A Get has hit a full cache of two entries while a third key is stored and
\* not cached, so that a Get miss can insert it next.
C18_Witness ==
    /\ size = 2 /\ Len(lru) = 2
    /\ last.op = "Get" /\ last.cached /\ last.calls = 0
    /\ \E k \in Keys \ KeySet(lru) : m[k] # Nil

\* C14 (idempotence of successful writes): in every pipeline over the memory
\* store, right after a Set(k, v) that returned no error, the same Set again
\* returns no error and leaves the store contents and the cache contents and
\* order as they are, hence every Get result; and likewise Delete(k).
C14_Idempotent ==
    /\ (last.op = "Set" /\ last.err = ErrNil) =>
           \A script \in Scripts :
               LET r == call(stack, "Set", store, last.key, last.data,
                             script, 0)
               IN /\ r.err = ErrNil
                  /\ r.st = store
                  /\ \A k \in Keys :
                         Bytes(call(stack, "Get", r.st, k, Nil, script, 0).val)
                             = Bytes(NextGet(k, script).val)
    /\ (last.op = "Delete" /\ last.err = ErrNil) =>
           \A script \in Scripts :
               LET r == call(stack, "Delete", store, last.key, Nil, script, 0)
               IN /\ r.err = ErrNil
                  /\ r.st = store
                  /\ \A k \in Keys :
                         call(stack, "Get", r.st, k, Nil, script, 0).err
                             = NextGet(k, script).err

\* A Set through cache over retry has succeeded with a second entry in the
\* cache, and repeating it changes nothing.
C14_Witness ==
    /\ stack = <<"cache", "retry">> /\ size = 2 /\ Len(lru) = 2
    /\ last.op = "Set" /\ last.err = ErrNil /\ ~last.cached
    /\ \A script \in Scripts :
           call(stack, "Set", store, last.key, last.data, script, 0).st = store

\* C16 (NewRetry): with attempts <= 0 NewRetry returns the configuration
\* error and no store, and nothing reaches the wrapped store; with
\* attempts >= 1 it returns a store and no error, and no operation of that
\* store returns the configuration error.
C16_NewRetry ==
    /\ attempts <= 0 =>
           /\ stack = NoStore
           /\ last.op = "New" /\ last.err = ErrAttempts
           /\ last.n = 0 /\ last.calls = 0
           /\ m = [k \in Keys |-> Nil]
    /\ attempts >= 1 =>
           /\ stack = <<"retry">>
           /\ last.err # ErrAttempts
           /\ last.op = "New" => last.err = ErrNil

\* NewRetry was given a negative number of attempts.
C16_Witness ==
    /\ attempts < 0
    /\ stack = NoStore /\ last.err = ErrAttempts

\* C20 (cache transparency): every call on a cache over the memory store
\* returns what the memory store alone returns for it from the same
\* contents, and leaves the wrapped memory store with the contents the call
\* leaves in the memory store alone; so the two agree on every sequence.
C20_CacheTransparent ==
    [][(stack = <<"cache">> /\ ~faulty) =>
          LET bare == baseCall(last'.op, [m |-> m, lru |-> <<>>], last'.key,
                               last'.data, <<FALSE>>, 0)
          IN /\ last'.err = bare.err
             /\ last'.op = "Get" => Bytes(last'.val) = Bytes(bare.val)
             /\ m' = bare.st.m]_vars

\* A Get answered by a cache of capacity 1 without the memory store, with
\* the value the memory store holds.
C20_Witness ==
    /\ stack = <<"cache">> /\ ~faulty /\ size = 1
    /\ last.op = "Get" /\ last.cached /\ last.calls = 0
    /\ Bytes(last.val) = Bytes(m[last.key]) /\ last.val # Nil
    /\ \E k \in Keys \ {last.key} : m[k] # Nil

\* The buffers the memory map and the cache hold.
Stored(mm, c) == ({mm[k] : k \in Keys} \cup {c[i].val : i \in 1..Len(c)}) \ {Nil}

\* C13 (copy-on-boundary): in every pipeline over the memory store no buffer
\* held by the map or by the cache is a buffer of the callers: not the one
\* passed to the Set that has just returned, not the one the Get that has
\* just returned gave out (hit, miss or direct).  So a caller that writes to
\* such a buffer changes neither the map nor the cache nor the result of any
\* later Get.
C13_CopyOnBoundary ==
    [][/\ \A b \in Stored(m', lru') :
              /\ b \notin Vals
              /\ last'.op = "Set" => b # last'.data
              /\ last'.op = "Get" => b # last'.val
       /\ last'.op = "Get" => last'.val \in Vals \cup {Nil}
       /\ last'.op = "Mutate" =>
              /\ m' = m
              /\ lru' = lru
              /\ \A k \in Keys : \A script \in Scripts :
                     call(stack, "Get", [m |-> m', lru |-> lru'], k, Nil,
                          script, 0).val = NextGet(k, script).val]_vars

\* Behind cache over retry a caller has written to a buffer while the map and
\* the cache hold, for the key of its last call, the bytes the buffer had.
C13_Witness ==
    /\ stack = <<"cache", "retry">>
    /\ last.op = "Mutate" /\ last.val # last.data
    /\ Bytes(m[last.key]) = Bytes(last.data)
    /\ last.key \in KeySet(lru)
    /\ Bytes(ValOf(lru, last.key)) = Bytes(last.data)

Quiescent == \A t \in Threads : pc[t] = "idle"

\* C12 (coherence under concurrent use): with concurrent callers on one
\* cache over a linearizable wrapped store that never fails, whenever no call
\* is in flight every cache entry equals the wrapped store's value for its
\* key, and so Get of a key returns what the wrapped store holds for it.
C12_ConcurrentCoherent ==
    Quiescent =>
        /\ \A i \in 1..Len(lru) :
               Bytes(lru[i].val) = Bytes(m[lru[i].key])
        /\ \A k \in ConcKeys :
               /\ Bytes(NextGet(k, <<FALSE>>).val) = Bytes(m[k])
               /\ m[k] = Nil => NextGet(k, <<FALSE>>).err = ErrObjectNotFound

\* C19 (no lock across backend calls): a caller whose call into the wrapped
\* store is in progress does not hold the cache's mutex; the mutex is held
\* only by a caller inside one lru lookup, insert or remove, and not by two
\* callers or by a caller that has returned.
C19_NoLockAcrossBase ==
    /\ \A t \in Threads : pc[t] \in {"base", "wantAdd", "idle"} => lock # t
    /\ lock # NoThread => (lock \in Threads /\ pc[lock] \in {"lru", "add"})
    /\ \A t \in Threads : pc[t] \in {"lru", "add"} => lock = t

\* One caller is inside the wrapped store while another caller holds the
\* mutex for the lookup of a key the cache holds.
C19_Witness ==
    \E t, u \in Threads :
        /\ t # u
        /\ pc[t] = "base"
        /\ pc[u] = "lru" /\ lock = u /\ loc[u].op = "Get"
        /\ lruContains(lru, loc[u].key)

=============================================================================
